---- MODULE Spec2Model ----
(***************************************************************************)
(* The notebook client of super_hydro (clients/notebook.py): RunState,     *)
(* the session loop of NotebookApp.run in its two operating modes, the     *)
(* Update Cycle (update_frame) inside the Frame Synchronizer (sync), and   *)
(* the event handlers the host delivers whenever the program calls         *)
(* kernel.do_one_iteration().                                              *)
(*                                                                         *)
(* The program is single threaded and cooperative.  run() is the bottom    *)
(* of the call stack; every update_frame activation that is inside its     *)
(* sync() scope is one record of `stack`.  A host callback runs on top of  *)
(* whatever is executing do_one_iteration, so only the top of the stack    *)
(* (or run(), when the stack is empty) ever takes a step.                  *)
(*                                                                         *)
(* Time is counted in ticks, TicksPerSecond ticks to the second.           *)
(***************************************************************************)
EXTENDS Integers, Sequences, FiniteSets, TLC

VARIABLES
    running,          \* App._running (RunState: TRUE = Running)
    browser_control,  \* NotebookApp.browser_control
    pc,               \* position of run()
    exc,              \* the call whose exception ended run(), or "none"
    fps_ref,          \* self._fps is not None
    fps_open,         \* the FPS scope has been entered and not yet left
    frame,            \* FPS.frame, the limiter's frame counter
    fps_tic,          \* time at which the FPS scope was entered
    now,              \* the clock (time.perf_counter / time.time)
    stack,            \* update_frame activations inside their sync() scope
    w_fps,            \* self._w_fps.value, the TargetRate
    mouse_down,       \* self._mouse_down (PointerState.is_down)
    registered,       \* update_frame is registered with _w_density.on_update
    acked,            \* rendered frames for which the host has called back
    polls,            \* remaining iterations of the SelfDriven poll loop
    held,             \* history: the latest of pointer down/up/leave is a down
    nQuit,            \* history: do("quit") requests issued
    nGet,             \* history: frames fetched (successful get_array calls)
    failed,           \* history: some Server Proxy call has failed
    last,             \* history: the operation of the latest step
    prevTic,          \* history: start of the latest fetching Update Cycle
    tooSoon           \* history: that start came too soon after the one before

vars == <<running, browser_control, pc, exc, fps_ref, fps_open, frame, fps_tic,
          now, stack, w_fps, mouse_down, registered, acked, polls, held, nQuit,
          nGet, failed, last, prevTic, tooSoon>>

---------------------------------------------------------------------------
(* Bounds of the model. *)

\* NotebookApp.frames, scaled down
Frames == 2
\* NotebookApp.timeout, in ticks, scaled down
Timeout == 4
\* resolution of the clock
TicksPerSecond == 2
\* longest a get_array request blocks, in ticks
MaxWork == 1
\* most do("quit") requests after which the user still asks for another
MaxQuit == 2

\* kernel._poll_interval, in ticks
PollInterval == 1

\* the TargetRates the fps slider is set to: none, which every use floors
\* to one frame a second, and the fastest the clock resolves
Rates == {0, TicksPerSecond}
Buttons == {"quit", "reset", "reset_tracers"}

\* self._w_density.width
Width == 500
\* self._w_density.height, which the program leaves as the display has it
Height == 300
\* where the pointer is when an event is sent: a point inside the display
\* and its far corner
Points == {<<100, 50>>, <<Width, Height>>}
\* the pointer events get_widget() connects a handler to
Connected == {"mouse_down"}

\* no step of the program moves the clock past this
MaxTime == Timeout + MaxWork + TicksPerSecond + PollInterval

Max(a, b) == IF a >= b THEN a ELSE b
Min(a, b) == IF a <= b THEN a ELSE b
\* ceil(a / b) for b > 0
CeilDiv(a, b) == (a + b - 1) \div b

\* the latest step: the operation, the Server Proxy request it issued,
\* whether that request raised, and what else the step gave out
L(op, call, fail) == [op |-> op, call |-> call, fail |-> fail, val |-> <<>>]

---------------------------------------------------------------------------
(* Pure helpers. *)

\* the quotient a / b and 1 - q, kept as fractions <<numerator, denominator>>
Quot(a, b) == <<a, b>>
OneMinus(q) == <<q[2] - q[1], q[2]>>
SameQuot(p, q) == p[1] * q[2] = q[1] * p[2]

\* 1.0 / max(self._w_fps.value, 1), in ticks
Period(rate) == CeilDiv(TicksPerSecond, Max(rate, 1))

\* bool(self._fps): the limiter is there, its scope is open, frames remain
\* and the time budget remains
FpsTruthy == /\ fps_ref
             /\ fps_open
             /\ frame < Frames
             /\ now - fps_tic < Timeout

\* the limiter's advance, next(fps): the sequence ends when the timeout has
\* elapsed or max_frames is reached ...
FpsEnded == now - fps_tic >= Timeout \/ frame >= Frames

\* ... otherwise the next index is yielded and the counter incremented
FpsNext == frame' = frame + 1

\* entering the limiter's scope starts the timeout clock and the counter
FpsEnter ==
    /\ fps_open' = TRUE
    /\ frame' = 0
    /\ fps_tic' = now

\* leaving the limiter's scope, on the error path as well: no further
\* ticks are possible
FpsExit == fps_open' = FALSE

\* fps.fps, the frame rate the limiter has measured: whatever the frames
\* so far came at, up to the fastest the clock resolves
FpsMeasured == 0..TicksPerSecond

\* dt < 1.0 / max(rate, 1), for dt in ticks
TooSoon(dt, rate) == dt * Max(rate, 1) < TicksPerSecond

\* int(math.ceil(1 / max(1, fps.fps) / kernel._poll_interval)), for a
\* measured rate fps.fps = m
NPolls(m) == CeilDiv(CeilDiv(TicksPerSecond, Max(1, m)), PollInterval)

\* get_widget() has connected the handlers to the widgets
WidgetsUp == pc # "idle" /\ exc # "get"

Top == stack[Len(stack)]
SetTop(f, v) == [stack EXCEPT ![Len(stack)] = [@ EXCEPT ![f] = v]]
Pop == SubSeq(stack, 1, Len(stack) - 1)

---------------------------------------------------------------------------
(* Handlers and callbacks.  Each takes the stack `stk` its caller leaves   *)
(* behind (the caller's own position already advanced) and sets every      *)
(* variable a handler can touch; `fail` says whether the Server Proxy      *)
(* request it issues raises.                                               *)

\* faulty variant of quit(): a raising do("quit") marks the client Running
quit_rearm(fail) ==
    /\ nQuit' = nQuit + 1
    /\ running' = fail
    /\ failed' = (failed \/ fail)

\* quit(): do("quit"), then _running = False; a raising do() skips the
\* assignment
quit(fail) ==
    /\ nQuit' = nQuit + 1
    /\ running' = IF fail THEN running ELSE FALSE
    /\ failed' = (failed \/ fail)

\* faulty variant of on_value_change(): the guard on _running is missing
on_value_change_unguarded(fail, stk) ==
    /\ stack' = stk
    /\ UNCHANGED <<running, nQuit, frame, now, nGet, prevTic, tooSoon, w_fps,
                   mouse_down, held, acked>>
    /\ last' = L("value_change", "set", fail)
    /\ failed' = (failed \/ fail)

\* on_value_change(change)
on_value_change(fail, stk) ==
    /\ stack' = stk
    /\ UNCHANGED <<running, nQuit, frame, now, nGet, prevTic, tooSoon, w_fps,
                   mouse_down, held, acked>>
    /\ IF ~running
       THEN /\ last' = L("value_change", "none", FALSE)
            /\ UNCHANGED failed
       ELSE /\ last' = L("value_change", "set", fail)
            /\ failed' = (failed \/ fail)

\* faulty variant of on_click(): a raising do() is taken for the end of
\* the session
on_click_fatal(button, fail, stk) ==
    /\ stack' = stk
    /\ UNCHANGED <<frame, now, nGet, prevTic, tooSoon, w_fps, mouse_down, held,
                   acked>>
    /\ IF ~running
       THEN /\ last' = L("click", "none", FALSE)
            /\ UNCHANGED <<running, nQuit, failed>>
       ELSE IF button = "quit"
            THEN /\ nQuit' = nQuit + 1
                 /\ running' = IF fail THEN running ELSE FALSE
                 /\ failed' = (failed \/ fail)
                 /\ last' = L("click", "quit", fail)
            ELSE /\ last' = L("click", "do", fail)
                 /\ failed' = (failed \/ fail)
                 /\ running' = ~fail
                 /\ UNCHANGED nQuit

\* on_click(button)
on_click(button, fail, stk) ==
    /\ stack' = stk
    /\ UNCHANGED <<frame, now, nGet, prevTic, tooSoon, w_fps, mouse_down, held,
                   acked>>
    /\ IF ~running
       THEN /\ last' = L("click", "none", FALSE)
            /\ UNCHANGED <<running, nQuit, failed>>
       ELSE IF button = "quit"
            THEN /\ quit(fail)
                 /\ last' = L("click", "quit", fail)
            ELSE /\ last' = L("click", "do", fail)
                 /\ failed' = (failed \/ fail)
                 /\ UNCHANGED <<running, nQuit>>

\* faulty variant of update_frame(): the guard tests that there is a
\* limiter, not its truth value, `if self._fps is None or not self._running`
update_frame_spent_limiter(caller, stk) ==
    /\ UNCHANGED <<running, nQuit, w_fps, mouse_down, held, frame, now, nGet,
                   failed>>
    /\ IF ~fps_ref \/ ~running
       THEN /\ stack' = stk
            /\ last' = L("update_frame", "none", FALSE)
            /\ UNCHANGED <<prevTic, tooSoon>>
       ELSE /\ stack' = Append(stk, [tic |-> now, ph |-> "body", err |-> FALSE,
                                     caller |-> caller, t_continue |-> 0])
            /\ prevTic' = now
            /\ tooSoon' = (prevTic >= 0 /\ TooSoon(now - prevTic, w_fps))
            /\ last' = L("update_frame", "get_array", FALSE)

\* faulty variant of update_frame(): the guard tests the limiter only,
\* `if not self._fps: return`
update_frame_while_stopped(caller, stk) ==
    /\ UNCHANGED <<running, nQuit, w_fps, mouse_down, held, frame, now, nGet,
                   failed>>
    /\ IF ~FpsTruthy
       THEN /\ stack' = stk
            /\ last' = L("update_frame", "none", FALSE)
            /\ UNCHANGED <<prevTic, tooSoon>>
       ELSE /\ stack' = Append(stk, [tic |-> now, ph |-> "body", err |-> FALSE,
                                     caller |-> caller, t_continue |-> 0])
            /\ prevTic' = now
            /\ tooSoon' = (prevTic >= 0 /\ TooSoon(now - prevTic, w_fps))
            /\ last' = L("update_frame", "get_array", FALSE)

\* update_frame() up to the request of get_density(): the guard, the entry
\* of sync() (tic = perf_counter()) and server.get_array("density") sent.
\* The activation is left blocked in the request.
update_frame(caller, stk) ==
    /\ UNCHANGED <<running, nQuit, w_fps, mouse_down, held, frame, now, nGet,
                   failed>>
    /\ IF ~FpsTruthy \/ ~running
       THEN /\ stack' = stk
            /\ last' = L("update_frame", "none", FALSE)
            /\ UNCHANGED <<prevTic, tooSoon>>
       ELSE /\ stack' = Append(stk, [tic |-> now, ph |-> "body", err |-> FALSE,
                                     caller |-> caller, t_continue |-> 0])
            /\ prevTic' = now
            /\ tooSoon' = (prevTic >= 0 /\ TooSoon(now - prevTic, w_fps))
            /\ last' = L("update_frame", "get_array", FALSE)

\* _set_finger(x, y) called by the handler of pointer event `op`: the
\* assignments to the finger_x and finger_y widgets reach on_value_change
\* (a server.set each while Running, none once Stopped; `fail`: the first
\* set raises and the handler with it), and line 162 then reads the names
\* finger_x and finger_y, which nothing binds: NameError
set_finger(op, x, y, fail) ==
    IF ~running
    THEN /\ last' = [L(op, "none", FALSE) EXCEPT
                       !.val = [at |-> <<x, y>>, sent |-> <<>>,
                                raised |-> "NameError"]]
         /\ UNCHANGED failed
    ELSE /\ last' = [L(op, "set", fail) EXCEPT
                       !.val = [at |-> <<x, y>>,
                                sent |-> IF fail
                                         THEN <<Quot(x, Width)>>
                                         ELSE <<Quot(x, Width),
                                                OneMinus(Quot(y, Height))>>,
                                raised |-> IF fail THEN "set"
                                           ELSE "NameError"]]
         /\ failed' = (failed \/ fail)

\* _handle_mouse_move(x, y)
handle_mouse_move(x, y, fail, stk) ==
    /\ stack' = stk
    /\ UNCHANGED <<running, nQuit, frame, now, nGet, prevTic, tooSoon, w_fps,
                   mouse_down, held, acked>>
    /\ IF mouse_down
       THEN set_finger("mouse_move", x, y, fail)
       ELSE /\ last' = L("mouse_move", "none", FALSE)
            /\ UNCHANGED failed

\* _handle_mouse_down(x, y): _mouse_down = True, then _set_finger(x, y)
handle_mouse_down(x, y, fail, stk) ==
    /\ stack' = stk
    /\ mouse_down' = TRUE
    /\ held' = TRUE
    /\ UNCHANGED <<running, nQuit, frame, now, nGet, prevTic, tooSoon, w_fps,
                   acked>>
    /\ set_finger("mouse_down", x, y, fail)

\* _handle_mouse_up(x, y) and _handle_mouse_out(x, y), for `op` the one
\* or the other
handle_mouse_up(op, stk) ==
    /\ stack' = stk
    /\ mouse_down' = FALSE
    /\ held' = FALSE
    /\ last' = L(op, "none", FALSE)
    /\ UNCHANGED <<running, nQuit, failed, frame, now, nGet, prevTic, tooSoon,
                   w_fps, acked>>

\* the handler the host calls for pointer event e
pointer_handler(e, x, y, fail, stk) ==
    CASE e = "mouse_down" -> handle_mouse_down(x, y, fail, stk)
      [] e = "mouse_move" -> handle_mouse_move(x, y, fail, stk)
      [] e \in {"mouse_up", "mouse_out"} -> handle_mouse_up(e, stk)

\* the fps slider moves: the host sets self._w_fps.value
SetRate(r, stk) ==
    /\ stack' = stk
    /\ w_fps' = r
    /\ last' = L("rate", "none", FALSE)
    /\ UNCHANGED <<running, nQuit, failed, frame, now, nGet, prevTic, tooSoon,
                   acked, mouse_down, held>>

\* kernel.do_one_iteration() with nothing to deliver
NoMessage(stk) ==
    /\ stack' = stk
    /\ last' = L("poll", "none", FALSE)
    /\ UNCHANGED <<running, nQuit, failed, frame, now, nGet, prevTic, tooSoon,
                   w_fps, mouse_down, held, acked>>

\* kernel.do_one_iteration(): the host handles at most one message, and
\* logs what a handler raises.  The display calls the registered update
\* callback once for each frame it has rendered.
do_one_iteration(stk) ==
    \/ NoMessage(stk)
    \/ /\ WidgetsUp
       /\ \E fail \in BOOLEAN : on_value_change(fail, stk)
    \/ /\ WidgetsUp
       /\ \E b \in Buttons, fail \in BOOLEAN :
          /\ (b = "quit" /\ running) => nQuit < MaxQuit
          /\ on_click(b, fail, stk)
    \/ /\ WidgetsUp
       /\ \E e \in Connected, p \in Points, fail \in BOOLEAN :
          pointer_handler(e, p[1], p[2], fail, stk)
    \/ /\ WidgetsUp
       /\ \E r \in Rates : r # w_fps /\ SetRate(r, stk)
    \/ /\ registered
       /\ acked < nGet
       /\ acked' = acked + 1
       /\ update_frame("host", stk)

---------------------------------------------------------------------------
(* sync(): the `finally` block, for the activation on top of the stack.   *)

\* the context manager is left: the activation returns to its caller.
\* run() dies of the exception of an update_frame it called itself (the
\* FPS scope is left on the way out, self._fps stays set); the host logs
\* the exception of a callback.
SyncExit ==
    /\ stack' = Pop
    /\ IF Top.caller = "run" /\ Top.err
       THEN /\ pc' = "raised"
            /\ exc' = "get_array"
            /\ FpsExit
       ELSE UNCHANGED <<pc, exc, fps_open>>

\* faulty variant of the blocking get_density(): the host's loop runs
\* while the request waits for its reply
GetDensityReturns_pumping ==
    /\ stack # <<>>
    /\ Top.ph = "body"
    /\ \/ /\ \E fail \in BOOLEAN, d \in 0..MaxWork :
             /\ now + d <= MaxTime
             /\ now' = now + d
             /\ stack' = [SetTop("ph", "finally") EXCEPT
                            ![Len(stack)].err = fail]
             /\ frame' = IF fail THEN frame ELSE frame + 1
             /\ nGet' = IF fail THEN nGet ELSE nGet + 1
             /\ failed' = (failed \/ fail)
             /\ last' = L("get_density", "none", fail)
          /\ UNCHANGED <<running, w_fps, mouse_down, held, acked, nQuit,
                         prevTic, tooSoon>>
       \/ do_one_iteration(stack)
    /\ UNCHANGED <<browser_control, pc, exc, fps_ref, fps_open, fps_tic,
                   registered, polls>>

\* the rest of the body of `with self.sync()`: get_array returns or
\* raises after blocking for d ticks; the rgba assignment,
\* self._fps.frame += 1 and the status label follow a returned array.
\* Nothing yields in between.  The activation is left at the `finally` of
\* sync(), carrying the exception if get_array raised.
GetDensityReturns ==
    /\ stack # <<>>
    /\ Top.ph = "body"
    /\ \E fail \in BOOLEAN, d \in 0..MaxWork :
       /\ now + d <= MaxTime
       /\ now' = now + d
       /\ stack' = [SetTop("ph", "finally") EXCEPT ![Len(stack)].err = fail]
       /\ frame' = IF fail THEN frame ELSE frame + 1
       /\ nGet' = IF fail THEN nGet ELSE nGet + 1
       /\ failed' = (failed \/ fail)
       /\ last' = L("get_density", "none", fail)
    /\ UNCHANGED <<running, browser_control, pc, exc, fps_ref, fps_open,
                   fps_tic, w_fps, mouse_down, held, registered, acked, polls,
                   nQuit, prevTic, tooSoon>>

\* kernel.do_one_iteration() at the head of the finally block
SyncFinally ==
    /\ stack # <<>>
    /\ Top.ph = "finally"
    /\ do_one_iteration(SetTop("ph", "deadline"))
    /\ UNCHANGED <<browser_control, pc, exc, fps_ref, fps_open, fps_tic,
                   registered, polls>>

\* faulty variant of the pacing of sync(): an exception of the body
\* leaves the scope without waiting
SyncDeadline_reraise_early ==
    /\ stack # <<>>
    /\ Top.ph = "deadline"
    /\ LET t == Top.tic + Period(w_fps) IN
       IF now < t /\ ~Top.err
       THEN /\ stack' = [SetTop("ph", "yield") EXCEPT ![Len(stack)].t_continue = t]
            /\ UNCHANGED <<pc, exc, fps_open>>
       ELSE SyncExit
    /\ last' = L("sync", "none", FALSE)
    /\ UNCHANGED <<running, browser_control, fps_ref, frame, fps_tic, now,
                   w_fps, mouse_down, held, registered, acked, polls, nQuit,
                   nGet, failed, prevTic, tooSoon>>

\* t_continue = tic + 1.0 / max(self._w_fps.value, 1); tok = perf_counter();
\* first test of `while tok < t_continue`
SyncDeadline ==
    /\ stack # <<>>
    /\ Top.ph = "deadline"
    /\ LET t == Top.tic + Period(w_fps) IN
       IF now < t
       THEN /\ stack' = [SetTop("ph", "yield") EXCEPT ![Len(stack)].t_continue = t]
            /\ UNCHANGED <<pc, exc, fps_open>>
       ELSE SyncExit
    /\ last' = L("sync", "none", FALSE)
    /\ UNCHANGED <<running, browser_control, fps_ref, frame, fps_tic, now,
                   w_fps, mouse_down, held, registered, acked, polls, nQuit,
                   nGet, failed, prevTic, tooSoon>>

\* kernel.do_one_iteration() inside the pacing loop
SyncYield ==
    /\ stack # <<>>
    /\ Top.ph = "yield"
    /\ do_one_iteration(SetTop("ph", "sleep"))
    /\ UNCHANGED <<browser_control, pc, exc, fps_ref, fps_open, fps_tic,
                   registered, polls>>

\* tok = perf_counter(); dt = min(poll, t_continue - tok); sleep(dt) if
\* dt > 0; tok = perf_counter(); next test of `while tok < t_continue`
SyncSleep ==
    /\ stack # <<>>
    /\ Top.ph = "sleep"
    /\ LET dt == Max(0, Min(PollInterval, Top.t_continue - now)) IN
       /\ now + dt <= MaxTime
       /\ now' = now + dt
       /\ IF now + dt < Top.t_continue
          THEN /\ stack' = SetTop("ph", "yield")
               /\ UNCHANGED <<pc, exc, fps_open>>
          ELSE SyncExit
    /\ last' = L("sync", "none", FALSE)
    /\ UNCHANGED <<running, browser_control, fps_ref, frame, fps_tic, w_fps,
                   mouse_down, held, registered, acked, polls, nQuit, nGet,
                   failed, prevTic, tooSoon>>

---------------------------------------------------------------------------
(* run(), from the top of the stack being empty.                           *)

\* run() up to `with FPS(...) as fps: self._fps = fps`: the handshake
\* server.get(["Nx", "Ny"]), get_widget() (which connects the handlers),
\* self._w_fps.value = self.opts.fps, and the entry of the FPS scope
\* (frame counter 0, timeout clock started)
RunStart ==
    /\ pc = "idle"
    /\ \E fail \in BOOLEAN :
       /\ failed' = (failed \/ fail)
       /\ last' = L("run", "get", fail)
       /\ IF fail
          THEN /\ pc' = "raised"
               /\ exc' = "get"
               /\ UNCHANGED <<fps_ref, fps_open, frame, fps_tic, w_fps>>
          ELSE /\ pc' = IF browser_control THEN "b_call" ELSE "s_next"
               /\ fps_ref' = TRUE
               /\ FpsEnter
               /\ \E r \in Rates : w_fps' = r
               /\ UNCHANGED exc
    /\ UNCHANGED <<running, browser_control, now, stack, mouse_down, held,
                   registered, acked, polls, nQuit, nGet, prevTic, tooSoon>>

\* BrowserDriven: self._w_density.on_update(callback=self.update_frame);
\* self.update_frame()
BrowserFirst ==
    /\ pc = "b_call"
    /\ stack = <<>>
    /\ registered' = TRUE
    /\ pc' = "b_while"
    /\ update_frame("run", stack)
    /\ UNCHANGED <<browser_control, exc, fps_ref, fps_open, fps_tic, acked,
                   polls>>

\* faulty variant of the BrowserDriven loop: `while self._running`
BrowserWhile_forever ==
    /\ pc = "b_while"
    /\ stack = <<>>
    /\ IF running
       THEN pc' = "b_poll" /\ UNCHANGED registered
       ELSE pc' = "exit" /\ registered' = FALSE
    /\ last' = L("run", "none", FALSE)
    /\ UNCHANGED <<running, browser_control, exc, fps_ref, fps_open, frame,
                   fps_tic, now, stack, w_fps, mouse_down, held, acked, polls,
                   nQuit, nGet, failed, prevTic, tooSoon>>

\* BrowserDriven: `while fps and self._running`, and on its exit
\* on_update(callback=self.update_frame, remove=True)
BrowserWhile ==
    /\ pc = "b_while"
    /\ stack = <<>>
    /\ IF FpsTruthy /\ running
       THEN pc' = "b_poll" /\ UNCHANGED registered
       ELSE pc' = "exit" /\ registered' = FALSE
    /\ last' = L("run", "none", FALSE)
    /\ UNCHANGED <<running, browser_control, exc, fps_ref, fps_open, frame,
                   fps_tic, now, stack, w_fps, mouse_down, held, acked, polls,
                   nQuit, nGet, failed, prevTic, tooSoon>>

\* BrowserDriven: kernel.do_one_iteration() of the dummy event loop
BrowserPoll ==
    /\ pc = "b_poll"
    /\ stack = <<>>
    /\ pc' = "b_sleep"
    /\ do_one_iteration(stack)
    /\ UNCHANGED <<browser_control, exc, fps_ref, fps_open, fps_tic,
                   registered, polls>>

\* BrowserDriven: time.sleep(kernel._poll_interval)
BrowserSleep ==
    /\ pc = "b_sleep"
    /\ stack = <<>>
    /\ now + PollInterval <= MaxTime
    /\ now' = now + PollInterval
    /\ pc' = "b_while"
    /\ last' = L("run", "none", FALSE)
    /\ UNCHANGED <<running, browser_control, exc, fps_ref, fps_open, frame,
                   fps_tic, stack, w_fps, mouse_down, held, registered, acked,
                   polls, nQuit, nGet, failed, prevTic, tooSoon>>

\* SelfDriven: `for frame in fps`, the advance of the limiter
SelfNext ==
    /\ pc = "s_next"
    /\ stack = <<>>
    /\ IF FpsEnded
       THEN pc' = "exit" /\ UNCHANGED frame
       ELSE pc' = "s_call" /\ FpsNext
    /\ last' = L("run", "none", FALSE)
    /\ UNCHANGED <<running, browser_control, exc, fps_ref, fps_open, fps_tic,
                   now, stack, w_fps, mouse_down, held, registered, acked,
                   polls, nQuit, nGet, failed, prevTic, tooSoon>>

\* SelfDriven: `if not self._running: break`, else self.update_frame()
SelfCall ==
    /\ pc = "s_call"
    /\ stack = <<>>
    /\ IF ~running
       THEN /\ pc' = "exit"
            /\ last' = L("run", "none", FALSE)
            /\ UNCHANGED <<running, frame, now, stack, w_fps, mouse_down, held,
                           nQuit, nGet, failed, prevTic, tooSoon>>
       ELSE /\ pc' = "s_range"
            /\ update_frame("run", stack)
    /\ UNCHANGED <<browser_control, exc, fps_ref, fps_open, fps_tic,
                   registered, acked, polls>>

\* SelfDriven: range(int(math.ceil(1 / max(1, fps.fps) / poll_interval))),
\* fps.fps being the rate the limiter has measured
SelfRange ==
    /\ pc = "s_range"
    /\ stack = <<>>
    /\ \E m \in FpsMeasured : polls' = NPolls(m)
    /\ pc' = IF polls' = 0 THEN "s_next" ELSE "s_poll"
    /\ last' = L("run", "none", FALSE)
    /\ UNCHANGED <<running, browser_control, exc, fps_ref, fps_open, frame,
                   fps_tic, now, stack, w_fps, mouse_down, held, registered,
                   acked, nQuit, nGet, failed, prevTic, tooSoon>>

\* SelfDriven: kernel.do_one_iteration() of the poll loop
SelfPoll ==
    /\ pc = "s_poll"
    /\ stack = <<>>
    /\ polls > 0
    /\ polls' = polls - 1
    /\ pc' = IF polls = 1 THEN "s_next" ELSE "s_poll"
    /\ do_one_iteration(stack)
    /\ UNCHANGED <<browser_control, exc, fps_ref, fps_open, fps_tic,
                   registered>>

\* faulty variant of the end of run(): self.quit() whatever _running is
RunExit_unguarded ==
    /\ pc = "exit"
    /\ stack = <<>>
    /\ FpsExit
    /\ fps_ref' = FALSE
    /\ \E fail \in BOOLEAN :
       /\ nQuit' = nQuit + 1
       /\ running' = IF fail THEN running ELSE FALSE
       /\ failed' = (failed \/ fail)
       /\ last' = L("run", "quit", fail)
       /\ pc' = IF fail THEN "raised" ELSE "returned"
       /\ exc' = IF fail THEN "quit" ELSE exc
    /\ UNCHANGED <<browser_control, frame, fps_tic, now, stack, w_fps,
                   mouse_down, held, registered, acked, polls, nGet, prevTic,
                   tooSoon>>

\* the end of run(): the FPS scope is left, self._fps = None, and
\* `if self._running: self.quit()`; run() dies of a raising do("quit")
RunExit ==
    /\ pc = "exit"
    /\ stack = <<>>
    /\ FpsExit
    /\ fps_ref' = FALSE
    /\ IF running
       THEN \E fail \in BOOLEAN :
            /\ quit(fail)
            /\ last' = L("run", "quit", fail)
            /\ pc' = IF fail THEN "raised" ELSE "returned"
            /\ exc' = IF fail THEN "quit" ELSE exc
       ELSE /\ pc' = "returned"
            /\ last' = L("run", "none", FALSE)
            /\ UNCHANGED <<running, nQuit, failed, exc>>
    /\ UNCHANGED <<browser_control, frame, fps_tic, now, stack, w_fps,
                   mouse_down, held, registered, acked, polls, nGet, prevTic,
                   tooSoon>>

---------------------------------------------------------------------------
(* Outside run(): the kernel's own loop and the user.                     *)

RunOver == pc \in {"returned", "raised"} /\ stack = <<>>

\* after run() has ended the kernel goes on delivering messages to the
\* handlers that are still connected
KernelIdle ==
    /\ RunOver
    /\ do_one_iteration(stack)
    /\ UNCHANGED <<browser_control, pc, exc, fps_ref, fps_open, fps_tic,
                   registered, polls>>

\* the user calls app.quit() from a cell
UserQuit ==
    /\ pc = "idle" \/ RunOver
    /\ nQuit < MaxQuit
    /\ \E fail \in BOOLEAN : quit(fail) /\ last' = L("quit", "quit", fail)
    /\ UNCHANGED <<browser_control, pc, exc, fps_ref, fps_open, frame, fps_tic,
                   now, stack, w_fps, mouse_down, held, registered, acked,
                   polls, nGet, prevTic, tooSoon>>

\* the user calls app.update_frame() from a cell
UserUpdate ==
    /\ pc = "idle" \/ RunOver
    /\ update_frame("host", stack)
    /\ UNCHANGED <<browser_control, pc, exc, fps_ref, fps_open, fps_tic,
                   registered, acked, polls>>

\* the user moves, releases or withdraws the pointer over the display:
\* an event get_widget() connected no handler to, so that nothing of the
\* program runs
PointerEvent ==
    /\ WidgetsUp
    /\ \E e \in {"mouse_move", "mouse_up", "mouse_out"} \ Connected :
       /\ held' = (held /\ e = "mouse_move")
       /\ last' = L(e, "none", FALSE)
    /\ UNCHANGED <<running, browser_control, pc, exc, fps_ref, fps_open, frame,
                   fps_tic, now, stack, w_fps, mouse_down, registered, acked,
                   polls, nQuit, nGet, failed, prevTic, tooSoon>>

\* faulty variant of _Interrupted.__bool__: the flag keeps what
\* `not app._running` was when the flag was made
Interrupted_bool_snapshot == FALSE

\* _Interrupted.__bool__ of the flag get_app() handed to server.run():
\* `not self.app._running`, read through the reference to the App
Interrupted_bool == ~running

\* the server, in its own thread, tests the flag it was handed
ServerTestsFlag ==
    /\ last' = [L("interrupted", "none", FALSE) EXCEPT
                  !.val = <<Interrupted_bool>>]
    /\ UNCHANGED <<running, browser_control, pc, exc, fps_ref, fps_open, frame,
                   fps_tic, now, stack, w_fps, mouse_down, held, registered,
                   acked, polls, nQuit, nGet, failed, prevTic, tooSoon>>

---------------------------------------------------------------------------

Init ==
    /\ running = TRUE
    /\ browser_control \in BOOLEAN
    /\ pc = "idle"
    /\ exc = "none"
    /\ fps_ref = FALSE
    /\ fps_open = FALSE
    /\ frame = 0
    /\ fps_tic = 0
    /\ now = 0
    /\ stack = <<>>
    /\ w_fps = 0
    /\ mouse_down = FALSE
    /\ held = FALSE
    /\ registered = FALSE
    /\ acked = 0
    /\ polls = 0
    /\ nQuit = 0
    /\ nGet = 0
    /\ failed = FALSE
    /\ last = L("init", "none", FALSE)
    /\ prevTic = -1
    /\ tooSoon = FALSE

Next ==
    \/ RunStart
    \/ BrowserFirst
    \/ BrowserWhile
    \/ BrowserPoll
    \/ BrowserSleep
    \/ SelfNext
    \/ SelfCall
    \/ SelfRange
    \/ SelfPoll
    \/ RunExit
    \/ GetDensityReturns
    \/ SyncFinally
    \/ SyncDeadline
    \/ SyncYield
    \/ SyncSleep
    \/ KernelIdle
    \/ UserQuit
    \/ UserUpdate

Spec == Init /\ [][Next]_vars

\* the program is one thread that keeps executing
FairSpec == Spec /\ WF_vars(Next)

\* the program together with the server thread that polls the
\* Interruption Flag
NextWithServer == Next \/ ServerTestsFlag
FlagSpec == Init /\ [][NextWithServer]_vars

\* the program together with the pointer events of the display that no
\* handler is connected to
NextWithPointer == Next \/ PointerEvent
PointerSpec == Init /\ [][NextWithPointer]_vars

---------------------------------------------------------------------------
(* Sanity of the model. *)

TypeOK ==
    /\ running \in BOOLEAN
    /\ browser_control \in BOOLEAN
    /\ pc \in {"idle", "b_call", "b_while", "b_poll", "b_sleep", "s_next", "s_call",
               "s_range", "s_poll", "exit", "returned", "raised"}
    /\ exc \in {"none", "get", "get_array", "quit"}
    /\ frame \in 0..Frames
    /\ now \in 0..MaxTime
    /\ w_fps \in Rates
    /\ mouse_down \in BOOLEAN
    /\ held \in BOOLEAN
    /\ acked \in 0..nGet
    /\ nGet \in 0..Frames
    /\ nQuit \in 0..(MaxQuit + 1)
    /\ Len(stack) <= Frames + 1

\* the cap on the clock never holds a sleep back
ClockFree ==
    /\ pc = "b_sleep" => now + PollInterval <= MaxTime
    /\ \A i \in 1..Len(stack) : stack[i].t_continue <= MaxTime

---------------------------------------------------------------------------
(* Properties. *)

Live == pc \notin {"idle", "returned", "raised"}

\* C1: when run() has ended on the failure of get_array in an Update
\* Cycle, do("quit") has been attempted exactly once and RunState is
\* Stopped.
C1_FatalGetArrayQuits ==
    (pc = "raised" /\ exc = "get_array") => (nQuit = 1 /\ ~running)

\* C2: once RunState is Stopped no operation issues another do("quit"),
\* and RunState stays Stopped.
C2_QuitIdempotent ==
    [][~running => (nQuit' = nQuit /\ ~running')]_vars

\* C3: a SelfDriven session that nothing stopped from outside, in which no
\* request failed and whose timeout did not elapse, has fetched exactly
\* Frames frames when run() returns.
C3_ExactlyFFrames ==
    ( /\ pc = "returned"
      /\ ~browser_control
      /\ ~failed
      /\ nQuit = 1
      /\ last = L("run", "quit", FALSE)
      /\ now - fps_tic < Timeout )
    => nGet = Frames

\* C4: at the end of run(), if RunState is still Running one do("quit") is
\* issued and RunState becomes Stopped only if that request went through
\* (a raising do("quit") leaves it Running and run() does not return); if
\* RunState is already Stopped no do("quit") is issued.  RunState is
\* Stopped whenever run() has returned.
C4_QuitThenStopped ==
    /\ [][(pc = "exit" /\ pc' # "exit") =>
            IF running
            THEN /\ nQuit' = nQuit + 1
                 /\ last'.call = "quit"
                 /\ ~running' <=> ~last'.fail
                 /\ pc' = "returned" <=> ~last'.fail
            ELSE /\ nQuit' = nQuit
                 /\ last'.call = "none"
                 /\ ~running'
                 /\ pc' = "returned"]_vars
    /\ [](pc = "returned" => ~running)

\* C4 witness: run() has returned after issuing the one do("quit") itself
C4_Witness ==
    pc = "returned" /\ ~running /\ nQuit = 1 /\ last = L("run", "quit", FALSE)

\* C5: two successive Update Cycles that fetch a frame never start less
\* than 1/max(1, TargetRate) apart.
C5_PeriodNotShorter == ~tooSoon

\* C6: at most one update_frame activation is inside its sync() scope.
C6_OneActiveCycle == Len(stack) <= 1

\* C7: once RunState is Stopped, a value-change or click event issues no
\* Server Proxy request and changes nothing of the program's state.
C7_StoppedIgnoresEvents ==
    [][(~running /\ last'.op \in {"value_change", "click"}) =>
         /\ last'.call = "none"
         /\ Len(stack') = Len(stack)
         /\ UNCHANGED <<running, exc, fps_ref, fps_open, frame, fps_tic, now,
                        w_fps, mouse_down, held, registered, acked, nQuit,
                        nGet, failed>>]_vars

\* C7 witness: a value-change event has been handled while Stopped
C7_Witness == ~running /\ last = L("value_change", "none", FALSE)

\* C8: once RunState is Stopped it is never Running again.
C8_RunStateMonotone == [][~running => ~running']_vars

\* C8 witness: Stopped, and the host has since called update_frame
C8_Witness == ~running /\ nQuit >= 1 /\ last = L("update_frame", "none", FALSE)

\* C9: unless a Server Proxy request fails, a started session ends: run()
\* returns with RunState Stopped and a do("quit") issued.
C9_Terminates ==
    (pc # "idle") ~> (failed \/ (pc = "returned" /\ ~running /\ nQuit >= 1))

\* C9 witness: a BrowserDriven session with no failed request has returned
\* because its timeout elapsed
C9_Witness ==
    /\ pc = "returned" /\ ~running /\ ~failed /\ browser_control
    /\ nQuit = 1 /\ frame < Frames /\ now - fps_tic >= Timeout

\* C10: a failing set or do of a control event leaves RunState Running,
\* does not end run() or unwind an Update Cycle, and leaves the limiter as
\* it was, so that the next Update Cycle fetches as it would have.
C10_ControlFailureNonFatal ==
    [][(/\ last'.op \in {"value_change", "click"}
        /\ last'.call \in {"set", "do"}
        /\ last'.fail) =>
         /\ running /\ running'
         /\ exc' = exc
         /\ pc' = "raised" <=> pc = "raised"
         /\ Len(stack') = Len(stack)
         /\ UNCHANGED <<fps_ref, fps_open, frame, fps_tic, now, nGet>>]_vars

\* C10 witness: a control request has failed in a session that is running
C10_Witness ==
    running /\ Live /\ FpsTruthy /\ last.fail /\ last.call \in {"set", "do"}

\* C11: whenever the server tests the Interruption Flag it was handed
\* when the App was made, the flag is true iff RunState is Stopped, and
\* the test changes nothing of the program's state.
C11_FlagIsStopped ==
    [][last'.op = "interrupted" =>
         /\ last'.val = <<~running>>
         /\ UNCHANGED <<running, browser_control, pc, exc, fps_ref, fps_open,
                        frame, fps_tic, now, stack, w_fps, mouse_down, held,
                        registered, acked, polls, nQuit, nGet, failed>>]_vars

\* C11 witness: the flag made before run() tests true after a later quit
C11_Witness ==
    ~running /\ nQuit >= 1 /\ pc # "idle" /\ last.op = "interrupted"
    /\ last.val = <<TRUE>>

\* C12: an update_frame called while RunState is Stopped, or while the
\* limiter is not there or is spent (before the loop of run(), after it,
\* or with the frame or time budget used up), sends no get_array, does not
\* enter sync(), and leaves the frame counter, the fetched frames and the
\* rest of the program's state as they were.
C12_GuardedUpdateNoOp ==
    [][(last'.op = "update_frame" /\ (~running \/ ~FpsTruthy)) =>
         /\ last'.call = "none"
         /\ Len(stack') = Len(stack)
         /\ UNCHANGED <<running, exc, fps_ref, fps_open, frame, fps_tic, now,
                        w_fps, mouse_down, held, nQuit, nGet, failed, prevTic,
                        tooSoon>>]_vars

\* C12 witness: the host has called update_frame back, while the session
\* loop was still live, after RunState became Stopped with the limiter's
\* budget not yet spent
C12_Witness ==
    /\ ~running /\ Live /\ FpsTruthy /\ acked >= 1
    /\ last = L("update_frame", "none", FALSE)

\* C13: an update_frame activation leaves its sync() scope, whether its
\* body returned or raised, only after at least one do_one_iteration()
\* and not before tic + 1/max(1, TargetRate), the TargetRate being the one
\* sync() read for its deadline; the exception of the body ends run() only
\* at that point.
C13_PacingAlwaysRuns ==
    [][/\ Len(stack') < Len(stack) =>
            /\ Top.ph \in {"deadline", "sleep"}
            /\ IF Top.ph = "deadline"
               THEN now' >= Top.tic + Period(w_fps)
               ELSE /\ now' >= Top.t_continue
                    /\ \E r \in Rates : Top.t_continue = Top.tic + Period(r)
       /\ (exc' = "get_array" /\ exc # "get_array") =>
            (Len(stack') < Len(stack) /\ Top.err)]_vars

\* C13 witness: run() has ended on the exception of an Update Cycle whose
\* get_array raised at once, a full period after that cycle began
C13_Witness ==
    /\ pc = "raised" /\ exc = "get_array" /\ stack = <<>>
    /\ last = L("sync", "none", FALSE)
    /\ nGet = 0 /\ prevTic = fps_tic /\ now = prevTic + Period(w_fps)

\* the update_frame activations whose get_array request awaits its reply
InFlight == {i \in 1..Len(stack) : stack[i].ph = "body"}

\* C14: no step of run(), of an Update Cycle or of a handler sends a
\* Server Proxy request (get, get_array, set, do, quit) while a get_array
\* awaits its reply, and at most one get_array ever does: the get_array of
\* one frame has returned before the next is sent.
C14_OneRequestAtATime ==
    /\ [][last'.call # "none" => InFlight = {}]_vars
    /\ [](Cardinality(InFlight) <= 1)

\* C14 witness: the get_array of a nested Update Cycle awaits its reply
\* while the cycle that yielded to the host is still inside sync()
C14_Witness ==
    /\ Len(stack) = 2
    /\ stack[2].ph = "body"
    /\ stack[1].ph \in {"deadline", "sleep"}
    /\ last = L("update_frame", "get_array", FALSE)

\* C15: in a running session a pointer-move forwards a finger position
\* exactly when the latest pointer-down, -up or -leave before it is a
\* pointer-down; a pointer-up and a pointer-leave set _mouse_down to False
\* and forward nothing.
C15_MoveForwardsWhileDown ==
    [][/\ (last'.op = "mouse_move" /\ running) =>
            (last'.call = "set" <=> held)
       /\ last'.op \in {"mouse_up", "mouse_out"} =>
            (~mouse_down' /\ last'.call = "none")]_vars

\* C16: a pointer-down at (x, y) in a running session sets _mouse_down,
\* sends set for finger_x = x / Width and then for finger_y = 1 - y /
\* Height, and its handler returns without raising (a raising set apart).
C16_PointerDownForwards ==
    [][(last'.op = "mouse_down" /\ running) =>
         /\ mouse_down'
         /\ last'.call = "set"
         /\ ~last'.fail =>
              /\ Len(last'.val.sent) = 2
              /\ SameQuot(last'.val.sent[1],
                          Quot(last'.val.at[1], Width))
              /\ SameQuot(OneMinus(last'.val.sent[2]),
                          Quot(last'.val.at[2], Height))
              /\ last'.val.raised = "none"]_vars

\* C17: once a BrowserDriven run() has ended, by returning or by an
\* exception, update_frame is no longer registered with the display.
C17_CallbackRemoved ==
    (browser_control /\ pc \in {"returned", "raised"}) => ~registered

\* C18: while the limiter's scope is open its frame counter, which both
\* the limiter's advance and every fetching Update Cycle increment, is
\* never above Frames; and the loop of run() is left at its first test
\* that finds the frame limit or the timeout reached, in both modes.
C18_CounterWithinLimit ==
    /\ []((fps_ref /\ fps_open) => frame <= Frames)
    /\ [][(/\ stack = <<>>
           /\ pc \in {"s_next", "b_while"}
           /\ pc' # pc
           /\ (frame >= Frames \/ now - fps_tic >= Timeout)) =>
            pc' = "exit"]_vars

\* C18 witness: a SelfDriven loop whose counter one advance of the
\* limiter and one Update Cycle have brought to the limit
C18_Witness ==
    /\ ~browser_control /\ fps_ref /\ fps_open /\ running
    /\ frame = Frames /\ nGet = 1 /\ pc = "s_next" /\ stack = <<>>

\* C19: the SelfDriven loop, after each Update Cycle, runs
\* ceil(1 / max(1, TargetRate) / poll_interval) polls, TargetRate being
\* self._w_fps.value, the rate sync() paces by.
C19_PollsFromTargetRate ==
    [][(pc = "s_range" /\ pc' \in {"s_poll", "s_next"}) =>
         polls' = NPolls(w_fps)]_vars

====
